---- MODULE Spec2Model ----
(***************************************************************************)
(* A model of easunpy/modbusclient.py: the frame codec (create_request,    *)
(* decode_modbus_response, get_registers_from_request) as operators over   *)
(* byte and hex-character sequences, and ModbusClient.send with            *)
(* send_udp_discovery as a state machine over its sockets, one action per  *)
(* statement that touches one.                                             *)
(*                                                                         *)
(* A bytes object is a sequence of 0..255; a str of hexadecimal text is a  *)
(* sequence of one-character strings.                                      *)
(***************************************************************************)
EXTENDS Integers, Sequences, FiniteSets, TLC

VARIABLES
    \* ---- the codec: one call of a pure function and what it gave
    call,            \* the function called and its arguments
    ret,             \* its outcome: pending, a returned value or a raised exception
    \* ---- ModbusClient.send
    pc,              \* the statement send is at
    hex_command,     \* send's argument
    retry_count,     \* send's argument
    command_bytes,   \* line 37
    attempt,         \* the loop index of line 40
    udp_sock,        \* the socket of line 21
    tcp_server,      \* the socket of line 48
    client_sock,     \* the socket accept returned, line 59
    response,        \* lines 67, 76
    expected_length, \* line 70
    response_hex,    \* line 78
    result,          \* what send gave its caller
    \* ---- the device and the network
    udpInbox,        \* datagrams waiting on udp_sock
    backlog,         \* connections waiting on tcp_server
    wire,            \* bytes the device has sent on the connection, not yet read
    peerClosed,      \* the device closes the connection after those bytes
    \* ---- history of this call of send
    discoveries,     \* discovery datagrams sent
    failed,          \* attempts that ended in a failure
    sleeps,          \* backoff waits finished
    accepts,         \* connections accepted
    writes,          \* times the request was written
    completed,       \* exchanges completed (line 78 reached)
    events           \* the calls of the current attempt that succeeded, in order

codecVars == <<call, ret>>
sendVars == <<pc, hex_command, retry_count, command_bytes, attempt, udp_sock,
              tcp_server, client_sock, response, expected_length, response_hex,
              result>>
netVars == <<udpInbox, backlog, wire, peerClosed>>
histVars == <<discoveries, failed, sleeps, accepts, writes, completed, events>>
vars == <<call, ret, pc, hex_command, retry_count, command_bytes, attempt,
          udp_sock, tcp_server, client_sock, response, expected_length,
          response_hex, result, udpInbox, backlog, wire, peerClosed,
          discoveries, failed, sleeps, accepts, writes, completed, events>>

(***************************************************************************)
(* Bounds of the model.                                                    *)
(***************************************************************************)
\* the largest retry_count send is called with
MaxRetry == 3
\* the most 16-bit data words a response carries
MaxWords == 2
\* the largest register_count decode_modbus_response is called with
MaxRegisterCount == 2
\* the most hex characters cut off the end of a response before decoding
MaxCut == 2
\* the largest payload length the device declares on the connection
MaxPayload == 2

Min(a, b) == IF a < b THEN a ELSE b

(***************************************************************************)
(* Python values: str slicing, bytes.hex, bytes.fromhex, int(s, 16).       *)
(***************************************************************************)
HexDigits == <<"0", "1", "2", "3", "4", "5", "6", "7",
               "8", "9", "a", "b", "c", "d", "e", "f">>

\* s[a:b] for 0 <= a, 0 <= b: both ends are clipped to the length, never an error
Slice(s, a, b) == SubSeq(s, Min(a, Len(s)) + 1, Min(b, Len(s)))

\* bytes.hex(): two lowercase digits per byte, high nibble first
hex(b) ==
    [i \in 1..(2 * Len(b)) |->
        HexDigits[(IF i % 2 = 1 THEN b[(i + 1) \div 2] \div 16
                                ELSE b[i \div 2] % 16) + 1]]

IsHexDigit(c) == \E v \in 0..15 : HexDigits[v + 1] = c

DigitValue(c) == CHOOSE v \in 0..15 : HexDigits[v + 1] = c

\* int(s, 16) raises ValueError on the empty string and on a non-digit
IntParses(s) == Len(s) > 0 /\ \A i \in 1..Len(s) : IsHexDigit(s[i])

RECURSIVE IntBase16(_)
IntBase16(s) ==
    IF s = <<>> THEN 0
    ELSE (16 * IntBase16(SubSeq(s, 1, Len(s) - 1))) + DigitValue(s[Len(s)])

\* bytes.fromhex(s) raises ValueError on an odd length and on a non-digit
FromHexParses(s) == Len(s) % 2 = 0 /\ \A i \in 1..Len(s) : IsHexDigit(s[i])

fromhex(s) ==
    [i \in 1..(Len(s) \div 2) |->
        (16 * DigitValue(s[(2 * i) - 1])) + DigitValue(s[2 * i])]

\* what a call gives: a value (a sequence), or an exception and, in send, the
\* statement that raised it
Returned(v) == [kind |-> "return", value |-> v, error |-> "", at |-> ""]
Raised(e) == [kind |-> "raise", value |-> <<>>, error |-> e, at |-> ""]
Pending == [kind |-> "pending", value |-> <<>>, error |-> "", at |-> ""]

(***************************************************************************)
(* easunpy.crc.crc16_modbus: the Modbus-RTU CRC, polynomial 0xA001,        *)
(* initial value 0xFFFF.                                                   *)
(***************************************************************************)
RECURSIVE BitXor(_, _)
BitXor(a, b) ==
    IF a = 0 THEN b
    ELSE IF b = 0 THEN a
    ELSE (((a % 2) + (b % 2)) % 2) + (2 * BitXor(a \div 2, b \div 2))

\* one byte's eight shifts: the polynomial is folded in when a 1 is shifted out
RECURSIVE CrcShift(_, _)
CrcShift(crc, n) ==
    IF n = 0 THEN crc
    ELSE IF crc % 2 = 1 THEN CrcShift(BitXor(crc \div 2, 40961), n - 1)
    ELSE CrcShift(crc \div 2, n - 1)

RECURSIVE CrcFold(_, _)
CrcFold(crc, data) ==
    IF data = <<>> THEN crc
    ELSE CrcFold(CrcShift(BitXor(crc, Head(data)), 8), Tail(data))

crc16_modbus(data) == CrcFold(65535, data)

(***************************************************************************)
(* create_request                                                          *)
(***************************************************************************)
\* bytearray([...]) raises ValueError unless every element is in range(0, 256)
IsByte(x) == x >= 0 /\ x <= 255

\* the register address low byte without its mask
message_frame_Unmasked(unit_id, function_code, register_address, register_offset) ==
    << unit_id,
       function_code,
       (register_address \div 256) % 256,
       register_address,
       (register_offset \div 256) % 256,
       register_offset % 256 >>

\* lines 110-117
message_frame(unit_id, function_code, register_address, register_offset) ==
    << unit_id,
       function_code,
       (register_address \div 256) % 256,
       register_address % 256,
       (register_offset \div 256) % 256,
       register_offset % 256 >>

\* the CRC written high byte first
command_CrcBigEndian(transaction_id, protocol_id, frame, crc) ==
    << (transaction_id \div 256) % 256,
       transaction_id % 256,
       (protocol_id \div 256) % 256,
       protocol_id % 256,
       0, 10, 255, 4 >>
    \o frame
    \o << (crc \div 256) % 256, crc % 256 >>

\* lines 123-136, the CRC written low byte first
command(transaction_id, protocol_id, frame, crc) ==
    << (transaction_id \div 256) % 256,
       transaction_id % 256,
       (protocol_id \div 256) % 256,
       protocol_id % 256,
       0, 10, 255, 4 >>
    \o frame
    \o << crc % 256, (crc \div 256) % 256 >>

\* bytearray(iterable) and bytearray.extend(iterable) raise ValueError unless
\* every element is in range(0, 256)
bytearray_accepts(elems) == \A i \in 1..Len(elems) : IsByte(elems[i])

create_request(transaction_id, protocol_id, unit_id, function_code, register_address, register_offset) ==
    LET frame == message_frame(unit_id, function_code,
                               register_address, register_offset)
    IN  IF ~bytearray_accepts(frame) THEN Raised("ValueError")
        ELSE LET crc == crc16_modbus(frame)
                 packet == command(transaction_id, protocol_id, frame, crc)
             IN  IF ~bytearray_accepts(packet) THEN Raised("ValueError")
                 ELSE Returned(hex(packet))

(***************************************************************************)
(* decode_modbus_response                                                  *)
(***************************************************************************)
\* line 176: ValueError(f"Unsupported data format: {data_format}")
UnsupportedFormat == "ValueError: Unsupported data format"

\* the stride of the data words taken for a byte, not a 2-byte word
decode_value_ByteStride(data_bytes, i, data_format) ==
    LET word == Slice(data_bytes, i * 2, (i * 2) + 4)
    IN  CASE data_format = "Int" ->
               IF ~IntParses(word) THEN Raised("ValueError")
               ELSE LET value == IntBase16(word)
                    IN  Returned(<<IF value >= 32768 THEN value - 65536
                                                     ELSE value>>)
          [] data_format = "UnsignedInt" ->
               IF ~IntParses(word) THEN Raised("ValueError")
               ELSE Returned(<<IntBase16(word)>>)
          [] data_format = "Float" ->
               IF ~FromHexParses(word) THEN Raised("ValueError")
               ELSE IF Len(fromhex(word)) # 4 THEN Raised("struct.error")
               ELSE Returned(<<fromhex(word)>>)
          [] OTHER -> Raised(UnsupportedFormat)

\* the sign fold one off: 0x8000 left positive
decode_value_FoldAbove(data_bytes, i, data_format) ==
    LET word == Slice(data_bytes, i * 4, (i + 1) * 4)
    IN  CASE data_format = "Int" ->
               IF ~IntParses(word) THEN Raised("ValueError")
               ELSE LET value == IntBase16(word)
                    IN  Returned(<<IF value > 32768 THEN value - 65536
                                                    ELSE value>>)
          [] data_format = "UnsignedInt" ->
               IF ~IntParses(word) THEN Raised("ValueError")
               ELSE Returned(<<IntBase16(word)>>)
          [] data_format = "Float" ->
               IF ~FromHexParses(word) THEN Raised("ValueError")
               ELSE IF Len(fromhex(word)) # 4 THEN Raised("struct.error")
               ELSE Returned(<<fromhex(word)>>)
          [] OTHER -> Raised(UnsupportedFormat)

\* lines 164-176: the value of register i, or the exception the line raises
decode_value(data_bytes, i, data_format) ==
    LET word == Slice(data_bytes, i * 4, (i + 1) * 4)
    IN  CASE data_format = "Int" ->
               IF ~IntParses(word) THEN Raised("ValueError")
               ELSE LET value == IntBase16(word)
                    IN  Returned(<<IF value >= 32768 THEN value - 65536
                                                     ELSE value>>)
          [] data_format = "UnsignedInt" ->
               IF ~IntParses(word) THEN Raised("ValueError")
               ELSE Returned(<<IntBase16(word)>>)
          [] data_format = "Float" ->
               \* struct.unpack('f', b) needs 4 bytes; the slice holds at most 2
               IF ~FromHexParses(word) THEN Raised("ValueError")
               ELSE IF Len(fromhex(word)) # 4 THEN Raised("struct.error")
               ELSE Returned(<<fromhex(word)>>)
          [] OTHER -> Raised(UnsupportedFormat)

\* the loop of lines 162-179 from register i on, values collected so far
RECURSIVE decode_loop(_, _, _, _, _)
decode_loop(data_bytes, register_count, data_format, i, values) ==
    IF i >= register_count THEN Returned(values)
    ELSE LET v == decode_value(data_bytes, i, data_format)
         IN  IF v.kind = "raise" THEN v
             ELSE decode_loop(data_bytes, register_count, data_format, i + 1,
                              values \o v.value)

decode_modbus_response(resp, register_count, data_format) ==
    LET length_hex == Slice(resp, 8, 12)
    IN  IF ~IntParses(length_hex) THEN Raised("ValueError")
        ELSE
        LET length == IntBase16(length_hex)
            rtu_payload == Slice(resp, 12, 12 + (length * 2))
            count_hex == Slice(rtu_payload, 8, 10)
        IN  IF ~IntParses(count_hex) THEN Raised("ValueError")
            ELSE
            LET num_data_bytes == IntBase16(count_hex)
                data_bytes == Slice(rtu_payload, 10, 10 + (num_data_bytes * 2))
            IN  decode_loop(data_bytes, register_count, data_format, 0, <<>>)

(***************************************************************************)
(* get_registers_from_request                                              *)
(***************************************************************************)
\* the range of line 192 starting at 1
get_registers_from_request_FromOne(request) ==
    LET rtu_payload == Slice(request, 12, Len(request))
        address_hex == Slice(rtu_payload, 8, 12)
        count_hex == Slice(rtu_payload, 12, 16)
    IN  IF ~IntParses(address_hex) \/ ~IntParses(count_hex)
        THEN Raised("ValueError")
        ELSE LET register_address == IntBase16(address_hex)
                 register_count == IntBase16(count_hex)
             IN  Returned([i \in 1..register_count |-> register_address + i])

\* lines 187-195
get_registers_from_request(request) ==
    LET rtu_payload == Slice(request, 12, Len(request))
        address_hex == Slice(rtu_payload, 8, 12)
        count_hex == Slice(rtu_payload, 12, 16)
    IN  IF ~IntParses(address_hex) \/ ~IntParses(count_hex)
        THEN Raised("ValueError")
        ELSE LET register_address == IntBase16(address_hex)
                 register_count == IntBase16(count_hex)
             IN  Returned([i \in 1..register_count |-> register_address + (i - 1)])

(***************************************************************************)
(* The codec's calls: Init draws a function and its arguments, the action  *)
(* applies the function.                                                   *)
(***************************************************************************)
TransactionIds == {0, 1, 4660, 65535, 65794, -1}
ProtocolIds == {1, 43981}
UnitIds == {0, 1, 255, 256, -1}
FunctionCodes == {4, 255, 260}
RegisterAddresses == {0, 100, 4660, 65535, 65636}
RegisterOffsets == {1, 3, 256, 65535, 65539}

\* 16-bit data words of a response, among them the four the signed mapping turns on
Words == {0, 32767, 32768, 65535, 4779}

RECURSIVE SeqsUpTo(_, _)
SeqsUpTo(S, n) ==
    IF n = 0 THEN {<<>>}
    ELSE LET shorter == SeqsUpTo(S, n - 1)
         IN  shorter \cup {Append(q, x) : q \in shorter, x \in S}

RECURSIVE BigEndianWords(_)
BigEndianWords(ws) ==
    IF ws = <<>> THEN <<>>
    ELSE <<Head(ws) \div 256, Head(ws) % 256>> \o BigEndianWords(Tail(ws))

\* a response frame: the 6-byte header whose bytes 4..5 hold the payload length,
\* then the payload: 4 bytes, the data byte count, the data words, a trailer
ResponseBytes(ws, trailer) ==
    LET payload == <<255, 1, 4, 0, 2 * Len(ws)>> \o BigEndianWords(ws) \o trailer
    IN  <<0, 1, 0, 1, Len(payload) \div 256, Len(payload) % 256>> \o payload

Trailers == {<<>>, <<171, 205>>}
DataFormats == {"Int", "UnsignedInt", "Float", "Double"}

CreateRequestCalls ==
    {[fn |-> "create_request", args |-> <<t, p, u, f, a, o>>] :
        t \in TransactionIds, p \in ProtocolIds, u \in UnitIds,
        f \in FunctionCodes, a \in RegisterAddresses, o \in RegisterOffsets}

DecodeCalls ==
    {[fn |-> "decode_modbus_response",
      response |-> LET h == hex(ResponseBytes(ws, tr))
                   IN  SubSeq(h, 1, Len(h) - cut),
      register_count |-> n, data_format |-> fmt,
      words |-> ws, trailer |-> tr, cut |-> cut] :
        ws \in SeqsUpTo(Words, MaxWords), tr \in Trailers, cut \in 0..MaxCut,
        n \in 0..MaxRegisterCount, fmt \in DataFormats}

\* requests built by create_request, and the same cut short
ExtractAddresses == {0, 100, 4660, 65535}
ExtractCounts == {0, 1, 3, 258}

GetRegistersCalls ==
    {[fn |-> "get_registers_from_request",
      request |-> LET h == create_request(t, 1, u, 4, a, c).value
                  IN  SubSeq(h, 1, Len(h) - cut),
      args |-> <<t, 1, u, 4, a, c>>, cut |-> cut] :
        t \in {1, 65535}, u \in {1, 255}, a \in ExtractAddresses,
        c \in ExtractCounts, cut \in {0, 4 + MaxCut}}

NoCall == [fn |-> "none"]

CallCreateRequest ==
    /\ call.fn = "create_request"
    /\ ret = Pending
    /\ ret' = create_request(call.args[1], call.args[2], call.args[3],
                             call.args[4], call.args[5], call.args[6])
    /\ UNCHANGED <<call, sendVars, netVars, histVars>>

CallDecodeModbusResponse ==
    /\ call.fn = "decode_modbus_response"
    /\ ret = Pending
    /\ ret' = decode_modbus_response(call.response, call.register_count,
                                     call.data_format)
    /\ UNCHANGED <<call, sendVars, netVars, histVars>>

CallGetRegistersFromRequest ==
    /\ call.fn = "get_registers_from_request"
    /\ ret = Pending
    /\ ret' = get_registers_from_request(call.request)
    /\ UNCHANGED <<call, sendVars, netVars, histVars>>

\* send has not been called
SendIdle ==
    /\ pc = "idle"
    /\ hex_command = <<>>
    /\ retry_count = 0
    /\ command_bytes = <<>>
    /\ attempt = 0
    /\ udp_sock = "none"
    /\ tcp_server = "none"
    /\ client_sock = "none"
    /\ response = <<>>
    /\ expected_length = 0
    /\ response_hex = <<>>
    /\ result = Pending
    /\ udpInbox = 0
    /\ backlog = 0
    /\ wire = <<>>
    /\ peerClosed = FALSE
    /\ discoveries = 0
    /\ failed = 0
    /\ sleeps = 0
    /\ accepts = 0
    /\ writes = 0
    /\ completed = 0
    /\ events = <<>>

CodecInit ==
    /\ call \in CreateRequestCalls \cup DecodeCalls \cup GetRegistersCalls
    /\ ret = Pending
    /\ SendIdle

CodecNext ==
    \/ CallCreateRequest
    \/ CallDecodeModbusResponse
    \/ CallGetRegistersFromRequest

CodecSpec == CodecInit /\ [][CodecNext]_vars

(***************************************************************************)
(* ModbusClient.send and send_udp_discovery.  pc names the statement send  *)
(* is at; a call on a socket is one action, its outcome a parameter:       *)
(* "ok", "error" (the call raises OSError) or "timeout" (it raises         *)
(* socket.timeout).  A blocking call (recvfrom, accept, recv) returns "ok" *)
(* only when the device has sent what it waits for.                        *)
(***************************************************************************)
\* recv(1024), recvfrom(1024)
RecvSize == 1024

\* socket.socket() gives a socket with the default timeout, None, and neither
\* line 21 nor line 48 is followed by a settimeout
gettimeout == "None"

CallOutcomes == {"ok", "error"}
BlockingOutcomes ==
    {"ok", "error"} \cup (IF gettimeout = "None" THEN {} ELSE {"timeout"})

ExceptionOf(outcome) == IF outcome = "timeout" THEN "socket.timeout" ELSE "OSError"

\* what the device sends on the connection: a response frame declaring n payload
\* bytes, then one byte more
DeviceFrame(n) ==
    <<0, 1, 0, 1, n \div 256, n % 256>> \o [i \in 1..n |-> 160 + i] \o <<238>>

\* every prefix of such a frame; the device then closes the connection or not
DeviceSends ==
    UNION {{SubSeq(DeviceFrame(n), 1, k) : k \in 0..Len(DeviceFrame(n))} :
              n \in 0..MaxPayload}

\* send's hex_command: an encoded request, and a string of odd length
HexCommands == {create_request(1, 1, 1, 4, 0, 1).value, <<"0", "1", "0">>}

SendInit ==
    /\ pc = "send"
    /\ hex_command \in HexCommands
    /\ retry_count \in 0..MaxRetry
    /\ command_bytes = <<>>
    /\ attempt = 0
    /\ udp_sock = "none"
    /\ tcp_server = "none"
    /\ client_sock = "none"
    /\ response = <<>>
    /\ expected_length = 0
    /\ response_hex = <<>>
    /\ result = Pending
    /\ udpInbox = 0
    /\ backlog = 0
    /\ wire = <<>>
    /\ peerClosed = FALSE
    /\ discoveries = 0
    /\ failed = 0
    /\ sleeps = 0
    /\ accepts = 0
    /\ writes = 0
    /\ completed = 0
    /\ events = <<>>

Init ==
    /\ call = NoCall
    /\ ret = Pending
    /\ SendInit

\* an exception leaves send: the with blocks it passes close their sockets
Propagate(e) ==
    /\ pc' = "done"
    /\ result' = [Raised(e) EXCEPT !.at = pc]

\* line 37: bytes.fromhex raises ValueError before the loop
SendBegin ==
    /\ pc = "send"
    /\ IF FromHexParses(hex_command)
       THEN /\ command_bytes' = fromhex(hex_command)
            /\ pc' = "for"
            /\ UNCHANGED result
       ELSE /\ Propagate("ValueError")
            /\ UNCHANGED command_bytes
    /\ UNCHANGED <<codecVars, hex_command, retry_count, attempt, udp_sock,
                   tcp_server, client_sock, response, expected_length,
                   response_hex, netVars, histVars>>

\* range(retry_count + 1) in line 40
ForAttempt_OneMore ==
    /\ pc = "for"
    /\ IF attempt <= retry_count
       THEN /\ pc' = "udp_socket"
            /\ events' = <<>>
            /\ UNCHANGED result
       ELSE /\ pc' = "done"
            /\ result' = Returned(<<>>)
            /\ UNCHANGED events
    /\ UNCHANGED <<codecVars, hex_command, retry_count, command_bytes, attempt,
                   udp_sock, tcp_server, client_sock, response, expected_length,
                   response_hex, netVars, discoveries, failed, sleeps, accepts,
                   writes, completed>>

\* line 40, and lines 91-92 when range(retry_count) is used up
ForAttempt ==
    /\ pc = "for"
    /\ IF attempt < retry_count
       THEN /\ pc' = "udp_socket"
            /\ events' = <<>>
            /\ UNCHANGED result
       ELSE /\ pc' = "done"
            /\ result' = Returned(<<>>)
            /\ UNCHANGED events
    /\ UNCHANGED <<codecVars, hex_command, retry_count, command_bytes, attempt,
                   udp_sock, tcp_server, client_sock, response, expected_length,
                   response_hex, netVars, discoveries, failed, sleeps, accepts,
                   writes, completed>>

\* line 21: the socket is made outside the try of line 23
UdpSocket(outcome) ==
    /\ pc = "udp_socket"
    /\ IF outcome = "ok"
       THEN /\ udp_sock' = "open"
            /\ udpInbox' = 0
            /\ pc' = "udp_sendto"
            /\ UNCHANGED result
       ELSE /\ Propagate(ExceptionOf(outcome))
            /\ UNCHANGED <<udp_sock, udpInbox>>
    /\ UNCHANGED <<codecVars, hex_command, retry_count, command_bytes, attempt,
                   tcp_server, client_sock, response, expected_length,
                   response_hex, backlog, wire, peerClosed, histVars>>

\* send going on to line 48 although send_udp_discovery returned False
DiscoveryFailed_Ignored(e) ==
    /\ udp_sock' = "closed"
    /\ udpInbox' = 0
    /\ failed' = failed
    /\ pc' = "tcp_socket"
    /\ UNCHANGED <<result, events>>

\* lines 28-33 and 21: send_udp_discovery catches, closes its socket and returns
\* False; lines 43-45: send logs and goes to the backoff wait
DiscoveryFailed(e) ==
    /\ udp_sock' = "closed"
    /\ udpInbox' = 0
    /\ failed' = failed + 1
    /\ pc' = "sleep_discovery"
    /\ UNCHANGED <<result, events>>

\* line 25
UdpSendto(outcome) ==
    /\ pc = "udp_sendto"
    /\ IF outcome = "ok"
       THEN /\ discoveries' = discoveries + 1
            /\ events' = Append(events, "sendto")
            /\ pc' = "udp_recvfrom"
            /\ UNCHANGED <<udp_sock, udpInbox, failed, result>>
       ELSE /\ DiscoveryFailed(ExceptionOf(outcome))
            /\ UNCHANGED discoveries
    /\ UNCHANGED <<codecVars, hex_command, retry_count, command_bytes, attempt,
                   tcp_server, client_sock, response, expected_length,
                   response_hex, backlog, wire, peerClosed, sleeps, accepts,
                   writes, completed>>

\* lines 26-27 and 21: a datagram received, the socket closed, True returned
DiscoveryAcknowledged_KeepsSocket ==
    /\ udp_sock' = "open"
    /\ udpInbox' = 0
    /\ events' = Append(events, "ack")
    /\ pc' = "tcp_socket"
    /\ UNCHANGED <<failed, result>>

DiscoveryAcknowledged ==
    /\ udp_sock' = "closed"
    /\ udpInbox' = 0
    /\ events' = Append(events, "ack")
    /\ pc' = "tcp_socket"
    /\ UNCHANGED <<failed, result>>

\* line 26: blocks until a datagram is there
UdpRecvfrom(outcome) ==
    /\ pc = "udp_recvfrom"
    /\ IF outcome = "ok"
       THEN /\ udpInbox > 0
            /\ DiscoveryAcknowledged
       ELSE DiscoveryFailed(ExceptionOf(outcome))
    /\ UNCHANGED <<codecVars, hex_command, retry_count, command_bytes, attempt,
                   tcp_server, client_sock, response, expected_length,
                   response_hex, backlog, wire, peerClosed, discoveries, sleeps,
                   accepts, writes, completed>>

\* continue without the wait of line 45
SleepDiscovery_NoWait ==
    /\ pc = "sleep_discovery"
    /\ attempt' = attempt + 1
    /\ pc' = "for"
    /\ UNCHANGED <<codecVars, hex_command, retry_count, command_bytes, udp_sock,
                   tcp_server, client_sock, response, expected_length,
                   response_hex, result, netVars, discoveries, failed, sleeps,
                   accepts, writes, completed, events>>

\* lines 45-46: time.sleep(1); continue
SleepDiscovery ==
    /\ pc = "sleep_discovery"
    /\ sleeps' = sleeps + 1
    /\ attempt' = attempt + 1
    /\ pc' = "for"
    /\ UNCHANGED <<codecVars, hex_command, retry_count, command_bytes, udp_sock,
                   tcp_server, client_sock, response, expected_length,
                   response_hex, result, netVars, discoveries, failed, accepts,
                   writes, completed, events>>

\* line 48: the socket is made outside the try of line 52
TcpSocket(outcome) ==
    /\ pc = "tcp_socket"
    /\ IF outcome = "ok"
       THEN /\ tcp_server' = "open"
            /\ backlog' = 0
            /\ events' = Append(events, "socket")
            /\ pc' = "tcp_setsockopt"
            /\ UNCHANGED result
       ELSE /\ Propagate(ExceptionOf(outcome))
            /\ UNCHANGED <<tcp_server, backlog, events>>
    /\ UNCHANGED <<codecVars, hex_command, retry_count, command_bytes, attempt,
                   udp_sock, client_sock, response, expected_length, response_hex, udpInbox,
                   wire, peerClosed, discoveries, failed, sleeps, accepts,
                   writes, completed>>

\* lines 49-50: inside the with of line 48, outside the try of line 52
TcpSetsockopt(outcome) ==
    /\ pc = "tcp_setsockopt"
    /\ IF outcome = "ok"
       THEN /\ pc' = "tcp_bind"
            /\ UNCHANGED <<tcp_server, result>>
       ELSE /\ tcp_server' = "closed"
            /\ Propagate(ExceptionOf(outcome))
    /\ UNCHANGED <<codecVars, hex_command, retry_count, command_bytes, attempt,
                   udp_sock, client_sock, response, expected_length,
                   response_hex, netVars, histVars>>

\* lines 82-88: an exception of the try is caught; the with of line 62 has closed
\* the connection it passed, the with of line 48 is still open; response is not
\* read again before line 67 assigns it
ExceptHandler_Propagates(e) ==
    /\ failed' = failed + 1
    /\ client_sock' = IF client_sock = "open" THEN "closed" ELSE client_sock
    /\ wire' = <<>>
    /\ peerClosed' = FALSE
    /\ response' = <<>>
    /\ expected_length' = 0
    /\ tcp_server' = "closed"
    /\ Propagate(e)
    /\ UNCHANGED events

\* the with of line 62 not closing the connection
ExceptHandler_KeepsConnection(e) ==
    /\ failed' = failed + 1
    /\ client_sock' = client_sock
    /\ wire' = <<>>
    /\ peerClosed' = FALSE
    /\ response' = <<>>
    /\ expected_length' = 0
    /\ pc' = "sleep_tcp"
    /\ UNCHANGED <<tcp_server, result, events>>

ExceptHandler(e) ==
    /\ failed' = failed + 1
    /\ client_sock' = IF client_sock = "open" THEN "closed" ELSE client_sock
    /\ wire' = <<>>
    /\ peerClosed' = FALSE
    /\ response' = <<>>
    /\ expected_length' = 0
    /\ pc' = "sleep_tcp"
    /\ UNCHANGED <<tcp_server, result, events>>

\* line 55
TcpBind(outcome) ==
    /\ pc = "tcp_bind"
    /\ IF outcome = "ok"
       THEN /\ tcp_server' = "bound"
            /\ events' = Append(events, "bind")
            /\ pc' = "tcp_listen"
            /\ UNCHANGED <<failed, client_sock, wire, peerClosed, response,
                           expected_length, result>>
       ELSE ExceptHandler(ExceptionOf(outcome))
    /\ UNCHANGED <<codecVars, hex_command, retry_count, command_bytes, attempt,
                   udp_sock, response_hex, udpInbox, backlog, discoveries,
                   sleeps, accepts, writes, completed>>

\* line 56
TcpListen(outcome) ==
    /\ pc = "tcp_listen"
    /\ IF outcome = "ok"
       THEN /\ tcp_server' = "listening"
            /\ events' = Append(events, "listen")
            /\ pc' = "tcp_accept"
            /\ UNCHANGED <<failed, client_sock, wire, peerClosed, response,
                           expected_length, result>>
       ELSE ExceptHandler(ExceptionOf(outcome))
    /\ UNCHANGED <<codecVars, hex_command, retry_count, command_bytes, attempt,
                   udp_sock, response_hex, udpInbox, backlog, discoveries,
                   sleeps, accepts, writes, completed>>

\* line 59 returns a connection; the listening socket stays as it is until the
\* with of line 48 is left
Accepted_ClosesListener ==
    /\ client_sock' = "open"
    /\ tcp_server' = "closed"
    /\ backlog' = 0
    /\ accepts' = accepts + 1
    /\ events' = Append(events, "accept")
    /\ pc' = "client_sendall"
    /\ UNCHANGED <<failed, wire, peerClosed, response, expected_length, result>>

Accepted ==
    /\ client_sock' = "open"
    /\ backlog' = backlog - 1
    /\ accepts' = accepts + 1
    /\ events' = Append(events, "accept")
    /\ pc' = "client_sendall"
    /\ UNCHANGED <<tcp_server, failed, wire, peerClosed, response,
                   expected_length, result>>

\* line 59: blocks until a connection is waiting
TcpAccept(outcome) ==
    /\ pc = "tcp_accept"
    /\ IF outcome = "ok"
       THEN /\ backlog > 0
            /\ Accepted
       ELSE /\ ExceptHandler(ExceptionOf(outcome))
            /\ backlog' = 0
            /\ UNCHANGED accepts
    /\ UNCHANGED <<codecVars, hex_command, retry_count, command_bytes, attempt,
                   udp_sock, response_hex, udpInbox, discoveries, sleeps,
                   writes, completed>>

\* line 64
ClientSendall(outcome) ==
    /\ pc = "client_sendall"
    /\ IF outcome = "ok"
       THEN /\ writes' = writes + 1
            /\ events' = Append(events, "write")
            /\ pc' = "client_recv"
            /\ UNCHANGED <<failed, client_sock, tcp_server, wire, peerClosed,
                           response, expected_length, result>>
       ELSE /\ ExceptHandler(ExceptionOf(outcome))
            /\ UNCHANGED writes
    /\ UNCHANGED <<codecVars, hex_command, retry_count, command_bytes, attempt,
                   udp_sock, response_hex, udpInbox, backlog, discoveries,
                   sleeps, accepts, completed>>

\* what recv(1024) can return: a non-empty prefix of the bytes that arrived, of
\* at most 1024 bytes; b'' once the device has closed; nothing yet otherwise
RecvChunks ==
    IF wire # <<>>
    THEN {SubSeq(wire, 1, k) : k \in 1..Min(Len(wire), RecvSize)}
    ELSE IF peerClosed THEN {<<>>} ELSE {}

\* int.from_bytes(response[4:6], 'big') + 6
ExpectedLength(r) == (r[5] * 256) + r[6] + 6

\* lines 67-72: the first read, and whether the loop of line 72 is entered
ClientRecv(outcome) ==
    /\ pc = "client_recv"
    /\ IF outcome = "ok"
       THEN /\ \E chunk \in RecvChunks :
                 /\ response' = chunk
                 /\ wire' = SubSeq(wire, Len(chunk) + 1, Len(wire))
                 /\ expected_length' =
                      IF Len(chunk) >= 6 THEN ExpectedLength(chunk) ELSE 0
                 /\ pc' = IF Len(chunk) >= 6 /\ Len(chunk) < ExpectedLength(chunk)
                          THEN "client_recv_more"
                          ELSE "client_hex"
            /\ events' = Append(events, "read")
            /\ UNCHANGED <<failed, client_sock, tcp_server, peerClosed, result>>
       ELSE ExceptHandler(ExceptionOf(outcome))
    /\ UNCHANGED <<codecVars, hex_command, retry_count, command_bytes, attempt,
                   udp_sock, response_hex, udpInbox, backlog, discoveries,
                   sleeps, accepts, writes, completed>>

\* the loop stops after one further read
ClientRecvMore_OneRead(outcome) ==
    /\ pc = "client_recv_more"
    /\ IF outcome = "ok"
       THEN /\ \E chunk \in RecvChunks :
                 /\ response' = response \o chunk
                 /\ wire' = SubSeq(wire, Len(chunk) + 1, Len(wire))
                 /\ pc' = "client_hex"
            /\ UNCHANGED <<failed, client_sock, tcp_server, peerClosed,
                           expected_length, result, events>>
       ELSE ExceptHandler(ExceptionOf(outcome))
    /\ UNCHANGED <<codecVars, hex_command, retry_count, command_bytes, attempt,
                   udp_sock, response_hex, udpInbox, backlog, discoveries,
                   sleeps, accepts, writes, completed>>

\* line 76 assigning the chunk in place of appending it
ClientRecvMore_Replaces(outcome) ==
    /\ pc = "client_recv_more"
    /\ IF outcome = "ok"
       THEN /\ \E chunk \in RecvChunks :
                 /\ response' = IF chunk # <<>> THEN chunk ELSE response
                 /\ wire' = SubSeq(wire, Len(chunk) + 1, Len(wire))
                 /\ pc' = IF chunk # <<>>
                             /\ Len(response) + Len(chunk) < expected_length
                          THEN "client_recv_more"
                          ELSE "client_hex"
            /\ UNCHANGED <<failed, client_sock, tcp_server, peerClosed,
                           expected_length, result, events>>
       ELSE ExceptHandler(ExceptionOf(outcome))
    /\ UNCHANGED <<codecVars, hex_command, retry_count, command_bytes, attempt,
                   udp_sock, response_hex, udpInbox, backlog, discoveries,
                   sleeps, accepts, writes, completed>>

\* lines 72-76: one more read; an empty chunk breaks the loop
ClientRecvMore(outcome) ==
    /\ pc = "client_recv_more"
    /\ IF outcome = "ok"
       THEN /\ \E chunk \in RecvChunks :
                 /\ response' = response \o chunk
                 /\ wire' = SubSeq(wire, Len(chunk) + 1, Len(wire))
                 /\ pc' = IF chunk # <<>>
                             /\ Len(response) + Len(chunk) < expected_length
                          THEN "client_recv_more"
                          ELSE "client_hex"
            /\ UNCHANGED <<failed, client_sock, tcp_server, peerClosed,
                           expected_length, result, events>>
       ELSE ExceptHandler(ExceptionOf(outcome))
    /\ UNCHANGED <<codecVars, hex_command, retry_count, command_bytes, attempt,
                   udp_sock, response_hex, udpInbox, backlog, discoveries,
                   sleeps, accepts, writes, completed>>

\* lines 78-79
ExchangeComplete ==
    /\ pc = "client_hex"
    /\ response_hex' = hex(response)
    /\ completed' = completed + 1
    /\ pc' = "return"
    /\ UNCHANGED <<codecVars, hex_command, retry_count, command_bytes, attempt,
                   udp_sock, tcp_server, client_sock, response, expected_length,
                   result, netVars, discoveries, failed, sleeps, accepts, writes,
                   events>>

\* the loop goes on after a completed exchange
Return_Continues ==
    /\ client_sock' = "closed"
    /\ tcp_server' = "closed"
    /\ attempt' = attempt + 1
    /\ pc' = "for"
    /\ UNCHANGED result

\* line 80: return leaves the with of line 62, the with of line 48, and send
Return ==
    /\ client_sock' = "closed"
    /\ tcp_server' = "closed"
    /\ result' = Returned(response_hex)
    /\ pc' = "done"
    /\ UNCHANGED attempt

ReturnResponse ==
    /\ pc = "return"
    /\ Return
    /\ UNCHANGED <<codecVars, hex_command, retry_count, command_bytes, udp_sock,
                   response, expected_length, response_hex, netVars, histVars>>

\* the handler gives up after its wait
Continue_Returns ==
    /\ tcp_server' = "closed"
    /\ sleeps' = sleeps + 1
    /\ pc' = "done"
    /\ result' = Returned(<<>>)
    /\ UNCHANGED attempt

\* lines 84-85, 88-89: time.sleep(1); continue leaves the with of line 48
Continue ==
    /\ tcp_server' = "closed"
    /\ sleeps' = sleeps + 1
    /\ attempt' = attempt + 1
    /\ pc' = "for"
    /\ UNCHANGED result

SleepTcp ==
    /\ pc = "sleep_tcp"
    /\ Continue
    /\ UNCHANGED <<codecVars, hex_command, retry_count, command_bytes, udp_sock,
                   client_sock, response, expected_length, response_hex,
                   netVars, discoveries, failed, accepts, writes, completed, events>>

(***************************************************************************)
(* The device: it may answer the discovery datagram, and it may connect    *)
(* back, send some bytes of a frame and close or keep the connection.      *)
(***************************************************************************)
DeviceAck ==
    /\ pc = "udp_recvfrom"
    /\ udpInbox = 0
    /\ udpInbox' = 1
    /\ UNCHANGED <<codecVars, sendVars, backlog, wire, peerClosed, histVars>>

DeviceConnect ==
    /\ pc = "tcp_accept"
    /\ backlog = 0
    /\ backlog' = 1
    /\ wire' \in DeviceSends
    /\ peerClosed' \in BOOLEAN
    /\ UNCHANGED <<codecVars, sendVars, udpInbox, histVars>>

Next ==
    \/ SendBegin
    \/ ForAttempt
    \/ \E o \in CallOutcomes : UdpSocket(o)
    \/ \E o \in CallOutcomes : UdpSendto(o)
    \/ \E o \in BlockingOutcomes : UdpRecvfrom(o)
    \/ SleepDiscovery
    \/ \E o \in CallOutcomes : TcpSocket(o)
    \/ \E o \in CallOutcomes : TcpSetsockopt(o)
    \/ \E o \in CallOutcomes : TcpBind(o)
    \/ \E o \in CallOutcomes : TcpListen(o)
    \/ \E o \in BlockingOutcomes : TcpAccept(o)
    \/ \E o \in CallOutcomes : ClientSendall(o)
    \/ \E o \in BlockingOutcomes : ClientRecv(o)
    \/ \E o \in BlockingOutcomes : ClientRecvMore(o)
    \/ ExchangeComplete
    \/ ReturnResponse
    \/ SleepTcp
    \/ DeviceAck
    \/ DeviceConnect

Spec == Init /\ [][Next]_vars

\* the steps send takes by itself: a call that succeeds once what it waits for
\* is there, or whose timeout expires. An error, and what the device does, may
\* never happen.
Progress ==
    \/ SendBegin
    \/ ForAttempt
    \/ \E o \in CallOutcomes \ {"error"} : UdpSocket(o)
    \/ \E o \in CallOutcomes \ {"error"} : UdpSendto(o)
    \/ \E o \in BlockingOutcomes \ {"error"} : UdpRecvfrom(o)
    \/ SleepDiscovery
    \/ \E o \in CallOutcomes \ {"error"} : TcpSocket(o)
    \/ \E o \in CallOutcomes \ {"error"} : TcpSetsockopt(o)
    \/ \E o \in CallOutcomes \ {"error"} : TcpBind(o)
    \/ \E o \in CallOutcomes \ {"error"} : TcpListen(o)
    \/ \E o \in BlockingOutcomes \ {"error"} : TcpAccept(o)
    \/ \E o \in CallOutcomes \ {"error"} : ClientSendall(o)
    \/ \E o \in BlockingOutcomes \ {"error"} : ClientRecv(o)
    \/ \E o \in BlockingOutcomes \ {"error"} : ClientRecvMore(o)
    \/ ExchangeComplete
    \/ ReturnResponse
    \/ SleepTcp

FairSpec == Init /\ [][Next]_vars /\ WF_vars(Progress)

(***************************************************************************)
(* Properties of send.                                                     *)
(***************************************************************************)
Released(sock) == sock \in {"none", "closed"}
ListenerOpen == tcp_server \in {"open", "bound", "listening"}

\* the statements that use the accepted connection
ExchangePcs == {"client_sendall", "client_recv", "client_recv_more", "client_hex"}

\* the calls of the discovery and of the try block of line 52
TransportCalls ==
    {"udp_sendto", "udp_recvfrom", "tcp_bind", "tcp_listen", "tcp_accept",
     "client_sendall", "client_recv", "client_recv_more"}

\* C1: as soon as one attempt completes its exchange, send returns the hex
\* encoding of that attempt's response and starts nothing more: at most one
\* exchange completes, every attempt before it failed, and no attempt follows it.
C1_FirstSuccessReturns ==
    completed > 0 =>
        /\ completed = 1
        /\ pc \in {"return", "done"}
        /\ attempt = failed
        /\ sleeps = failed
        /\ pc = "done" =>
             /\ result.kind = "return"
             /\ FromHexParses(result.value)
             /\ fromhex(result.value) = response

\* an attempt succeeded after a failed one, with an attempt still left
C1_Witness ==
    /\ pc = "done"
    /\ completed = 1
    /\ failed = 1
    /\ retry_count = 3
    /\ Len(response) >= 6

\* C2 as stated: send returns the empty string only when every one of the
\* retry_count attempts failed; never after a completed exchange.
C2_EmptyOnlyOnTotalFailure ==
    (pc = "done" /\ result = Returned(<<>>)) =>
        (completed = 0 /\ failed = retry_count)

\* C2 amended: send returns the empty string only when every one of the
\* retry_count attempts failed, or when an attempt completed its exchange with a
\* response of zero bytes, the device having closed the connection before
\* sending any byte.
C2_EmptyOnFailureOrEmptyResponse ==
    (pc = "done" /\ result = Returned(<<>>)) =>
        \/ completed = 0 /\ failed = retry_count /\ attempt = retry_count
        \/ completed = 1 /\ response = <<>> /\ peerClosed

\* a completed exchange returned the empty string
C2_Witness ==
    /\ pc = "done"
    /\ result = Returned(<<>>)
    /\ completed = 1
    /\ writes > 0

\* C3: a failure of the discovery sendto or recvfrom, of bind, listen, accept,
\* of the request write or of a response read never leaves send as an exception:
\* it is counted as a failed attempt and leads to the backoff wait and the next
\* attempt.
C3_TransportFailuresCaught ==
    /\ result.kind = "raise" => result.at \notin TransportCalls
    /\ completed = 0 =>
         failed = attempt + (IF pc \in {"sleep_discovery", "sleep_tcp"} THEN 1 ELSE 0)

\* send returned a response after two failed attempts
C3_Witness ==
    /\ pc = "done"
    /\ result.kind = "return"
    /\ failed = 2
    /\ completed = 1

\* C4: when the next attempt begins and when send returns or raises, the UDP
\* socket, the listening socket and the accepted connection of the attempt
\* before are closed.
C4_SocketsReleased ==
    pc \in {"for", "done"} =>
        /\ Released(udp_sock)
        /\ Released(tcp_server)
        /\ Released(client_sock)

\* the next attempt begins after an attempt that failed during the exchange
C4_Witness ==
    /\ pc = "for"
    /\ attempt = 1
    /\ writes = 1
    /\ udp_sock = "closed"
    /\ tcp_server = "closed"
    /\ client_sock = "closed"

\* C5 as stated: the listening socket is not open while the accepted connection
\* is used for the exchange, nor during the backoff wait after a failed bind,
\* listen, accept or exchange.
C5_ListenerClosedOnceAccepted ==
    pc \in ExchangePcs \cup {"sleep_tcp"} => ~ListenerOpen

\* C5 amended: the listening socket is closed when the attempt ends, not when
\* the connection is accepted or the failure is caught: it is still listening
\* while the accepted connection is used for the exchange, still open during
\* the backoff wait after a failed bind, listen, accept or exchange, and closed
\* once that wait is over or send returns.
C5_ListenerOpenUntilAttemptEnds ==
    /\ pc \in ExchangePcs \cup {"return"} => tcp_server = "listening"
    /\ pc = "sleep_tcp" => ListenerOpen
    /\ pc \in {"for", "udp_socket", "udp_sendto", "udp_recvfrom",
               "sleep_discovery", "tcp_socket", "done"} => ~ListenerOpen

\* the backoff wait after a failed exchange, the listening socket still open
C5_Witness ==
    /\ pc = "sleep_tcp"
    /\ accepts = 1
    /\ client_sock = "closed"
    /\ tcp_server = "listening"

\* C6: send_udp_discovery returns True only if a datagram was received, and
\* when it waits for the reply it eventually returns, with False when the
\* device never replies.
C6_DiscoveryReturns ==
    /\ [][(pc = "udp_recvfrom" /\ pc' = "tcp_socket") => udpInbox > 0]_vars
    /\ (pc = "udp_recvfrom") ~> (pc # "udp_recvfrom")

\* a blocking call (lines 26, 59, 67, 73) ends: it returns or it raises
BlockingCallEnds ==
    \/ \E o \in BlockingOutcomes : UdpRecvfrom(o)
    \/ \E o \in BlockingOutcomes : TcpAccept(o)
    \/ \E o \in BlockingOutcomes : ClientRecv(o)
    \/ \E o \in BlockingOutcomes : ClientRecvMore(o)

\* send takes its steps and every blocking call ends
ReturningSpec ==
    Init /\ [][Next]_vars /\ WF_vars(Progress) /\ WF_vars(BlockingCallEnds)

(***************************************************************************)
(* The codec's properties.                                                 *)
(***************************************************************************)
IsWord(x) == x >= 0 /\ x <= 65535

\* the 16-byte frame of six fields that fit their widths, field by field
FrameOf(t, p, u, f, a, o) ==
    LET body == <<u, f, a \div 256, a % 256, o \div 256, o % 256>>
        crc == crc16_modbus(body)
    IN  <<t \div 256, t % 256, p \div 256, p % 256, 0, 10, 255, 4>>
        \o body \o <<crc % 256, crc \div 256>>

CreateRequestDone == call.fn = "create_request" /\ ret # Pending

ArgsFit ==
    /\ IsWord(call.args[1]) /\ IsWord(call.args[2])
    /\ IsByte(call.args[3]) /\ IsByte(call.args[4])
    /\ IsWord(call.args[5]) /\ IsWord(call.args[6])

\* C7: for arguments that fit their bit widths, create_request returns exactly
\* 32 lowercase hexadecimal characters, the encoding of the 16-byte frame
\* [tidHi, tidLo, protoHi, protoLo, 0x00, 0x0A, 0xFF, 0x04, unitId, functionCode,
\* addrHi, addrLo, countHi, countLo, crc & 0xFF, crc >> 8] with crc the crc16 of
\* bytes 8..13: the CRC low byte first, every other field big-endian.
C7_EncodesFrame ==
    (CreateRequestDone /\ ArgsFit) =>
        /\ ret.kind = "return"
        /\ Len(ret.value) = 32
        /\ \A i \in 1..Len(ret.value) : IsHexDigit(ret.value[i])
        /\ fromhex(ret.value) =
             FrameOf(call.args[1], call.args[2], call.args[3],
                     call.args[4], call.args[5], call.args[6])

\* the golden request (1, 1, 1, 4, 0, 1) was encoded: its CRC is 0xCA31, written 31 ca
C7_Witness ==
    /\ CreateRequestDone
    /\ call.args = <<1, 1, 1, 4, 0, 1>>
    /\ ret.kind = "return"
    /\ SubSeq(ret.value, 29, 32) = <<"3", "1", "c", "a">>

\* C8 as stated: create_request never fails; every out-of-range argument is
\* masked to its field's width.
C8_NeverFails ==
    CreateRequestDone =>
        /\ ret.kind = "return"
        /\ fromhex(ret.value) =
             FrameOf(call.args[1] % 65536, call.args[2] % 65536,
                     call.args[3] % 256, call.args[4] % 256,
                     call.args[5] % 65536, call.args[6] % 65536)

\* C8 amended: the four 16-bit fields (transaction id, protocol id, register
\* address, register count) are masked to 16 bits, so an out-of-range value of
\* one of them is silently truncated; the unit id and the function code are not
\* masked, and create_request fails with ValueError when either lies outside
\* 0..255.
C8_MasksWordsRejectsBytes ==
    CreateRequestDone =>
        IF IsByte(call.args[3]) /\ IsByte(call.args[4])
        THEN /\ ret.kind = "return"
             /\ fromhex(ret.value) =
                  FrameOf(call.args[1] % 65536, call.args[2] % 65536,
                          call.args[3], call.args[4],
                          call.args[5] % 65536, call.args[6] % 65536)
        ELSE ret = Raised("ValueError")

\* a register address above 65535 was truncated into a frame
C8_Witness ==
    /\ CreateRequestDone
    /\ call.args[5] > 65535
    /\ call.args[1] < 0
    /\ ret.kind = "return"
    /\ Len(ret.value) = 32

DecodeDone == call.fn = "decode_modbus_response" /\ ret # Pending

\* the response is the whole well-formed frame built from call.words
WellFormed == call.cut = 0

\* C9: decoding with format UnsignedInt is a left-inverse of building a
\* response: a well-formed response built from N words in 0..65535, decoded with
\* register_count = N, gives back the same N values in the same order.
C9_UnsignedRoundTrip ==
    (DecodeDone /\ WellFormed /\ call.data_format = "UnsignedInt"
                /\ call.register_count = Len(call.words)) =>
        ret = Returned(call.words)

\* two different words were decoded back in their order
C9_Witness ==
    /\ DecodeDone /\ WellFormed /\ call.data_format = "UnsignedInt"
    /\ call.words = <<4779, 65535>>
    /\ call.register_count = 2
    /\ ret.kind = "return"
    /\ ret.value = <<4779, 65535>>

SignedOf(w) ==
    CASE w = 65535 -> -1
      [] w = 32768 -> -32768
      [] w = 32767 -> 32767
      [] w = 0 -> 0
      [] OTHER -> IF w < 32768 THEN w ELSE w - 65536

\* C10: format Int maps a raw 16-bit word w to w when w < 32768 and to
\* w - 65536 otherwise (0xFFFF -> -1, 0x8000 -> -32768, 0x7FFF -> 32767,
\* 0x0000 -> 0), and every value it returns lies in -32768..32767.
C10_SignedMapping ==
    (DecodeDone /\ call.data_format = "Int") =>
        /\ ret.kind = "return" =>
             \A i \in 1..Len(ret.value) :
                 ret.value[i] >= -32768 /\ ret.value[i] <= 32767
        /\ (WellFormed /\ call.register_count <= Len(call.words)) =>
             /\ ret.kind = "return"
             /\ Len(ret.value) = call.register_count
             /\ \A i \in 1..call.register_count :
                    ret.value[i] = SignedOf(call.words[i])

\* 0x8000 and 0xFFFF were decoded as -32768 and -1
C10_Witness ==
    /\ DecodeDone /\ WellFormed /\ call.data_format = "Int"
    /\ call.words = <<32768, 65535>>
    /\ ret.kind = "return"
    /\ ret.value = <<-32768, -1>>

\* C11: with a format other than Int, UnsignedInt and Float,
\* decode_modbus_response fails with the unsupported-format error for every
\* well-formed response and every register_count, 0 included.
C11_UnknownFormatFails ==
    (DecodeDone /\ WellFormed
       /\ call.data_format \notin {"Int", "UnsignedInt", "Float"}) =>
        ret = Raised(UnsupportedFormat)

GetRegistersDone == call.fn = "get_registers_from_request" /\ ret # Pending

\* C12: get_registers_from_request of the request create_request built for
\* register address a and count c returns the c addresses a, a+1, ..., a+c-1 in
\* order.
C12_ExtractsRequestedRange ==
    (GetRegistersDone /\ call.cut = 0) =>
        /\ ret.kind = "return"
        /\ Len(ret.value) = call.args[6]
        /\ \A i \in 1..Len(ret.value) : ret.value[i] = call.args[5] + i - 1

\* address 100, count 3 gave [100, 101, 102]
C12_Witness ==
    /\ GetRegistersDone
    /\ call.cut = 0
    /\ call.args[5] = 100
    /\ call.args[6] = 3
    /\ ret = Returned(<<100, 101, 102>>)

\* C18: with format Float, a well-formed response carrying at least
\* register_count data words and register_count >= 1 decodes to a sequence of
\* register_count values; the call does not fail.
C18_FloatDecodes ==
    (DecodeDone /\ WellFormed /\ call.data_format = "Float"
       /\ call.register_count >= 1
       /\ call.register_count <= Len(call.words)) =>
        /\ ret.kind = "return"
        /\ Len(ret.value) = call.register_count

\* the hex characters of data words the response string still holds
DataChars ==
    Min(4 * Len(call.words),
        IF Len(call.response) > 22 THEN Len(call.response) - 22 ELSE 0)

\* C20: whenever decode_modbus_response returns for Int or UnsignedInt, the
\* result has exactly register_count elements and each comes from a full
\* 2-byte word: a response holding fewer than 2 * register_count data bytes,
\* or a hex string shorter than declared, makes the call fail.
C20_FullWordsOrFailure ==
    (DecodeDone /\ call.data_format \in {"Int", "UnsignedInt"}
       /\ ret.kind = "return") =>
        /\ Len(ret.value) = call.register_count
        /\ 4 * call.register_count <= DataChars

\* the exchange of this call has read its last chunk
ExchangeRead == pc \in {"client_hex", "return"} \/ (pc = "done" /\ completed = 1)

\* the bytes are one complete frame: a 6-byte header and the payload it declares
IsCompleteFrame(bytes) == Len(bytes) >= 6 /\ Len(bytes) = ExpectedLength(bytes)

\* C13: once the first chunk holds at least 6 bytes the exchange reads on until
\* the accumulated length reaches expected_length or a zero-length read shows
\* the peer closed; a returned response shorter than expected_length therefore
\* means the peer closed, and send returns it as a success.
C13_ShortOnlyIfPeerClosed ==
    /\ pc = "client_recv_more" =>
          /\ Len(response) >= 6
          /\ expected_length = ExpectedLength(response)
          /\ Len(response) < expected_length
    /\ (ExchangeRead /\ Len(response) >= 6
          /\ Len(response) < ExpectedLength(response)) =>
          /\ peerClosed
          /\ wire = <<>>
    /\ (pc = "done" /\ completed = 1) =>
          /\ result = Returned(hex(response))
          /\ failed = attempt

\* a 7-byte part of an 8-byte frame came back as send's result
C13_Witness ==
    /\ pc = "done"
    /\ completed = 1
    /\ Len(response) = 7
    /\ ExpectedLength(response) = 8
    /\ peerClosed
    /\ result = Returned(hex(response))

\* C14: when the device sends one complete frame and keeps the connection
\* open, send returns the hex of the whole frame, bytes in order, however the
\* transport splits it into chunks, a first chunk under 6 bytes included.
C14_ReassemblesEveryChunking ==
    (pc = "done" /\ completed = 1 /\ ~peerClosed
       /\ IsCompleteFrame(response \o wire)) =>
        result = Returned(hex(response \o wire))

\* C14 as the code has it: the bytes read are always the first bytes the device
\* sent, in order; the whole frame is returned for every chunking whose first
\* chunk holds at least 6 bytes; a first chunk of fewer than 6 bytes is
\* returned alone.
C14_ReassemblesAfterHeader ==
    /\ (pc \in ExchangePcs \/ ExchangeRead) => response \o wire \in DeviceSends
    /\ (pc = "done" /\ completed = 1 /\ ~peerClosed
          /\ IsCompleteFrame(response \o wire)) =>
          /\ result = Returned(hex(response))
          /\ IF Len(response) >= 6 THEN wire = <<>> ELSE wire # <<>>

\* an 8-byte frame, the device still connected, returned whole
C14_Witness ==
    /\ pc = "done"
    /\ completed = 1
    /\ ~peerClosed
    /\ wire = <<>>
    /\ IsCompleteFrame(response)
    /\ Len(response) = 8
    /\ result = Returned(hex(response))

\* the failure of the current attempt is logged and its wait has not ended
Waiting == pc \in {"sleep_discovery", "sleep_tcp"}

\* C16: every failed attempt is followed by exactly one backoff wait before the
\* next attempt or the final return, and a successful attempt by none: the
\* waits done are the failed attempts, less the one whose wait is still due,
\* and when send returns the two numbers are equal.
C16_OneWaitPerFailedAttempt ==
    /\ sleeps = IF Waiting THEN failed - 1 ELSE failed
    /\ Waiting => attempt = sleeps
    /\ (pc = "done" /\ result.kind = "return") =>
          /\ sleeps = failed
          /\ sleeps = attempt
          /\ sleeps + completed <= retry_count

\* two failed attempts, two waits, then a success that adds no wait
C16_Witness ==
    /\ pc = "done"
    /\ result.kind = "return"
    /\ completed = 1
    /\ failed = 2
    /\ sleeps = 2

\* how often a call succeeded in the current attempt
Count(e) == Cardinality({i \in DOMAIN events : events[i] = e})

\* C17: in every attempt at most one connection is accepted, the request is
\* written exactly once on it before any response byte is read, and a
\* connection accepted in one attempt is not used in a later one.
C17_OneConnectionOneRequest ==
    /\ Count("accept") <= 1
    /\ Count("write") <= 1
    /\ \A i \in DOMAIN events :
          /\ events[i] = "write" => \E j \in 1..(i - 1) : events[j] = "accept"
          /\ events[i] = "read" => \E j \in 1..(i - 1) : events[j] = "write"
    /\ pc \in {"client_recv", "client_recv_more", "client_hex", "return"} =>
          Count("write") = 1
    /\ client_sock = "open" =>
          /\ Count("accept") = 1
          /\ pc \in ExchangePcs \cup {"return"}
    /\ accepts <= attempt + 1
    /\ writes <= accepts

\* the second attempt reads on its own connection after its own single write
C17_Witness ==
    /\ pc = "client_recv_more"
    /\ attempt = 1
    /\ accepts = 2
    /\ writes = 2
    /\ Count("accept") = 1
    /\ Count("write") = 1
    /\ client_sock = "open"

\* the order of the calls of one attempt
HandshakeOrder ==
    <<"sendto", "ack", "socket", "bind", "listen", "accept", "write", "read">>

IsPrefix(a, b) == Len(a) <= Len(b) /\ a = SubSeq(b, 1, Len(a))

\* C19: in each attempt the listening socket is created, bound and put into
\* listen only after that attempt's discovery datagram was sent and
\* acknowledged, accept follows listen and the write follows accept; a failed
\* discovery creates no TCP socket; and while the discovery is under way, the
\* moment the device acknowledges included, no listening socket is open.
C19_HandshakeOrder ==
    /\ IsPrefix(events, HandshakeOrder)
    /\ ListenerOpen => Count("sendto") = 1 /\ Count("ack") = 1 /\ Count("socket") = 1
    /\ tcp_server \in {"bound", "listening"} => Count("bind") = 1
    /\ tcp_server = "listening" => Count("listen") = 1
    /\ pc = "sleep_discovery" => (Count("socket") = 0 /\ ~ListenerOpen)
    /\ (pc \in {"udp_socket", "udp_sendto", "udp_recvfrom"} \/ udpInbox > 0) =>
          ~ListenerOpen

\* the device has acknowledged the discovery of the second attempt: the
\* listener of the first attempt is closed and none is bound yet
C19_Witness ==
    /\ pc = "udp_recvfrom"
    /\ udpInbox = 1
    /\ attempt = 1
    /\ accepts = 1
    /\ events = <<"sendto">>
    /\ tcp_server = "closed"

\* C15: send ends in Success or Exhausted after at most retry_count attempts;
\* it returns the empty string after exactly retry_count failed attempts, each
\* of which sent exactly one discovery datagram, and with retry_count = 0 it
\* returns the empty string without sending anything.
C15_SuccessOrExhausted ==
    /\ attempt <= retry_count
    /\ pc = "done" =>
          /\ result.kind = "return"
          /\ completed = 0 =>
                /\ result = Returned(<<>>)
                /\ failed = retry_count
                /\ discoveries = retry_count

\* the statements outside the handlers of lines 28-33 and 82-89
UncaughtCalls == {"send", "udp_socket", "tcp_socket", "tcp_setsockopt"}

\* C15 as the code has it: when every blocking call ends, send ends, after at
\* most retry_count attempts, in one of three ways: with the response of the one
\* completed exchange; with the empty string after exactly retry_count failed
\* attempts, each of which sent at most one discovery datagram; or with the
\* exception of bytes.fromhex, socket.socket or setsockopt.  With
\* retry_count = 0 no socket is made and nothing is sent.
C15_EndsWithinRetryCount ==
    /\ <>(pc = "done")
    /\ [](/\ attempt <= retry_count
          /\ failed + completed <= retry_count
          /\ Count("sendto") <= 1
          /\ discoveries <= attempt + 1)
    /\ [](pc = "done" =>
            \/ /\ result = Returned(response_hex)
               /\ completed = 1
               /\ attempt < retry_count
            \/ /\ result = Returned(<<>>)
               /\ completed = 0
               /\ failed = retry_count
               /\ attempt = retry_count
               /\ discoveries <= retry_count
            \/ /\ result.kind = "raise"
               /\ result.at \in UncaughtCalls
               /\ completed = 0)
    /\ [](retry_count = 0 =>
            /\ discoveries = 0
            /\ writes = 0
            /\ udp_sock = "none"
            /\ tcp_server = "none")

\* three attempts failed and the empty string came back; one of them failed at
\* sendto and sent no datagram
C15_Witness ==
    /\ pc = "done"
    /\ result = Returned(<<>>)
    /\ completed = 0
    /\ retry_count = 3
    /\ failed = 3
    /\ discoveries = 2

====
